---------------------------- MODULE Spec2Model ----------------------------
(***************************************************************************)
(* Model of costvariable.py (CANOE fuel pipeline): the price resolver      *)
(* _calc_value with its lookup helper _safe_base_from_cost, and the table  *)
(* builder build_costvariable.                                             *)
(*                                                                         *)
(* Python strings are tuples of one-character strings, so that lower(),    *)
(* strip() and the `in` substring test are computed, not assumed.          *)
(* Prices are integers counting hundredths of a model unit: the code's     *)
(* multipliers 0.89 and 0.9 are then the exact factors 89 and 90, and a    *)
(* chain without extra multiplier carries the factor 100.                  *)
(* Periods and prices of the tables are integers already, so the type      *)
(* coercions int(), float() and astype() of the code return them as given. *)
(***************************************************************************)
EXTENDS Integers, Sequences, FiniteSets, TLC

VARIABLES
    province_list,  \* build_costvariable argument: ordered region codes
    periods,        \* build_costvariable argument: ordered periods
    tech_list,      \* build_costvariable argument: ordered technology ids
    mapping,        \* tech id -> [output |-> technical name]
    dict_id,        \* region -> data_id
    cost_df,        \* raw cost table: sequence of [period, name, value]
    cfg,            \* [b_price, u_price]
    factors,        \* conversion factor bundle
    comb_dict,      \* the output-tables collection
    comb0,          \* comb_dict as it was when build_costvariable was called
    rows,           \* the local list `rows` of build_costvariable
    pc,             \* position inside build_costvariable
    pro_i, vint_i, per_i, tech_i,   \* positions of the four for-loops
    stdout,         \* warnings printed so far
    tname,          \* _calc_value argument tech_name (direct call)
    period_val,     \* _calc_value argument period_val (direct call)
    cpc,            \* position of the direct _calc_value call
    calc_ret        \* value returned by the direct _calc_value call

vars == <<province_list, periods, tech_list, mapping, dict_id, cost_df, cfg,
          factors, comb_dict, comb0, rows, pc, pro_i, vint_i, per_i, tech_i,
          stdout, tname, period_val, cpc, calc_ret>>

inputs == <<province_list, periods, tech_list, mapping, dict_id, cost_df, cfg,
            factors, comb0>>

---------------------------------------------------------------------------
(* Python string operations                                                *)

\* The lower-case form of one character (ASCII letters; others are kept).
LowerChar(c) ==
    CASE c = "A" -> "a"
      [] c = "B" -> "b"
      [] c = "C" -> "c"
      [] c = "D" -> "d"
      [] c = "E" -> "e"
      [] c = "F" -> "f"
      [] c = "G" -> "g"
      [] c = "H" -> "h"
      [] c = "I" -> "i"
      [] c = "J" -> "j"
      [] c = "K" -> "k"
      [] c = "L" -> "l"
      [] c = "M" -> "m"
      [] c = "N" -> "n"
      [] c = "O" -> "o"
      [] c = "P" -> "p"
      [] c = "Q" -> "q"
      [] c = "R" -> "r"
      [] c = "S" -> "s"
      [] c = "T" -> "t"
      [] c = "U" -> "u"
      [] c = "V" -> "v"
      [] c = "W" -> "w"
      [] c = "X" -> "x"
      [] c = "Y" -> "y"
      [] c = "Z" -> "z"
      [] OTHER -> c

\* str.lower()
lower(s) == [n \in 1..Len(s) |-> LowerChar(s[n])]

IsSpace(c) == c \in {" ", "\t", "\n"}

\* str.strip(): drop leading and trailing whitespace
strip(s) ==
    LET keep == {n \in 1..Len(s) : ~IsSpace(s[n])}
    IN  IF keep = {} THEN <<>>
        ELSE LET first == CHOOSE n \in keep : \A m \in keep : n <= m
                 last  == CHOOSE n \in keep : \A m \in keep : n >= m
             IN  SubSeq(s, first, last)

\* the Python test `sub in s` on strings
Contains(sub, s) ==
    \E n \in 0..(Len(s) - Len(sub)) : SubSeq(s, n + 1, n + Len(sub)) = sub

---------------------------------------------------------------------------
(* _safe_base_from_cost                                                    *)

\* As _safe_base_from_cost, but a miss yields the sentinel 1 instead of 0.
safe_base_miss_one(cdf, pv, tech_name, warn_label) ==
    LET sel == SelectSeq(cdf, LAMBDA r : r.period = pv /\ r.name = tech_name)
    IN  IF sel = <<>>
        THEN [base |-> 1,
              out  |-> <<[name |-> tech_name, period |-> pv, label |-> warn_label]>>]
        ELSE [base |-> sel[1].value, out |-> <<>>]

\* The first value of cdf matching (period, Tech Name); on a miss a warning
\* is printed and 0.0 returned.  `out` is what the call prints.
_safe_base_from_cost(cdf, pv, tech_name, warn_label) ==
    LET sel == SelectSeq(cdf, LAMBDA r : r.period = pv /\ r.name = tech_name)
    IN  IF sel = <<>>
        THEN [base |-> 0,
              out  |-> <<[name |-> tech_name, period |-> pv, label |-> warn_label]>>]
        ELSE [base |-> sel[1].value, out |-> <<>>]

---------------------------------------------------------------------------
(* _calc_value                                                             *)

\* As chain, but the deflator is subtracted instead of multiplied.
chain_minus(base, f, defl, mult) ==
    (((base * f.mmbtuconvertor) * f.currencyadjustment) - defl) * mult

\* ((base * mmbtuconvertor) * currencyadjustment) * deflator [* multiplier],
\* in hundredths: mult is 100 where the code has no extra multiplier.
chain(base, f, defl, mult) ==
    (((base * f.mmbtuconvertor) * f.currencyadjustment) * defl) * mult

\* As lpg_proxy, but the comparison is made on the name as given.
lpg_proxy_cased(tech_name, tname_lower) ==
    IF tech_name = <<"f", "_", "r", "_", "l", "p", "g">> THEN <<"R", "_", "p", "r", "o", "p">> ELSE <<"T", "_", "p", "r", "o", "p">>

\* Residential LPG uses R_prop, otherwise T_prop.
lpg_proxy(tech_name, tname_lower) ==
    IF tname_lower = <<"f", "_", "r", "_", "l", "p", "g">> THEN <<"R", "_", "p", "r", "o", "p">> ELSE <<"T", "_", "p", "r", "o", "p">>

\* As _calc_value, but the lng/cng/ngl and lpg tests are made first, ahead
\* of the config-based and fixed-price fuels.
calc_value_derived_first(tech, tech_name, pv, cdf, c, f) ==
    LET tname_lower == lower(tech_name)
        Has(tok) == Contains(tok, tname_lower)
        Plain(v) == [value |-> v, out |-> <<>>]
        P(proxy, label, mult) ==
            LET got == _safe_base_from_cost(cdf, pv, proxy, <<tech_name, label>>)
            IN  [value |-> chain(got.base, f, f.deflation_2025, mult),
                 out   |-> got.out]
    IN  IF Has(<<"l", "n", "g">>) \/ Has(<<"c", "n", "g">>) \/ Has(<<"n", "g", "l">>)
        THEN P(IF Has(<<"l", "n", "g">>) \/ Has(<<"c", "n", "g">>) THEN <<"T", "_", "n", "g">> ELSE <<"I", "_", "p", "r", "o", "p">>,
               "lng/cng/ngl proxy", 89)
        ELSE IF Has(<<"l", "p", "g">>)
        THEN P(lpg_proxy(tech_name, tname_lower), "lpg proxy", 100)
        ELSE IF Has(<<"b", "i", "o">>) \/ Has(<<"w", "o", "o", "d">>)
        THEN Plain(chain(c.b_price, f, f.deflation_2022, 100))
        ELSE IF Has(<<"u", "_", "n", "a", "t">>) \/ Has(<<"u", "_", "e", "n", "r">>)
        THEN Plain(chain(c.u_price, f, f.deflation_2022, 100))
        ELSE IF Has(<<"e", "t", "h">>) THEN Plain(f.eth_price * 100)
        ELSE IF Has(<<"r", "d", "s", "l">>) THEN Plain(f.rdsl_price * 100)
        ELSE IF Has(<<"s", "p", "k">>) THEN Plain(f.spk_price * 100)
        ELSE IF Has(<<"e", "_", "c", "o", "a", "l">>) THEN P(<<"I", "_", "c", "o", "a", "l">>, "E_coal->I_coal", 100)
        ELSE IF Has(<<"e", "_", "g", "s", "l">>) THEN P(<<"T", "_", "g", "s", "l">>, "E_gsl->T_gsl", 100)
        ELSE IF Has(<<"r", "_", "o", "i", "l">>) THEN P(<<"C", "_", "o", "i", "l">>, "R_oil->C_oil", 100)
        ELSE IF Has(<<"c", "_", "h", "2">>) \/ Has(<<"r", "_", "h", "2">>) THEN P(<<"I", "_", "h", "2">>, "H2->I_h2", 100)
        ELSE IF Has(<<"i", "_", "p", "c", "o", "k", "e">>) \/ Has(<<"i", "_", "c", "o", "k", "e">>)
        THEN P(<<"I", "_", "c", "o", "a", "l">>, "coke->I_coal", 100)
        ELSE IF Has(<<"a", "_", "g", "s", "l">>) THEN P(<<"T", "_", "g", "s", "l">>, "A_gsl->T_gsl", 100)
        ELSE IF Has(<<"a", "_", "n", "g">>) THEN P(<<"I", "_", "n", "g">>, "A_ng->I_ng", 100)
        ELSE IF Has(<<"a", "_", "d", "s", "l">>) THEN P(<<"T", "_", "d", "s", "l">>, "A_dsl->T_dsl", 100)
        ELSE IF Has(<<"a", "_", "p", "r", "o", "p">>) THEN P(<<"T", "_", "p", "r", "o", "p">>, "A_prop->T_prop", 100)
        ELSE IF Has(<<"m", "d", "o">>) THEN P(<<"T", "_", "d", "s", "l">>, "MDO->0.9*T_dsl", 90)
        ELSE P(tech_name, "direct", 100)

\* The price of tech_name at period pv, in hundredths of 2020 M$/PJ, and
\* the warnings the call prints.  The parameter tech is not used by the code.
_calc_value(tech, tech_name, pv, cdf, c, f) ==
    LET tname_lower == lower(tech_name)
        Has(tok) == Contains(tok, tname_lower)
        Plain(v) == [value |-> v, out |-> <<>>]
        P(proxy, label, mult) ==
            LET got == _safe_base_from_cost(cdf, pv, proxy, <<tech_name, label>>)
            IN  [value |-> chain(got.base, f, f.deflation_2025, mult),
                 out   |-> got.out]
    IN  IF Has(<<"b", "i", "o">>) \/ Has(<<"w", "o", "o", "d">>)
        THEN Plain(chain(c.b_price, f, f.deflation_2022, 100))
        ELSE IF Has(<<"u", "_", "n", "a", "t">>) \/ Has(<<"u", "_", "e", "n", "r">>)
        THEN Plain(chain(c.u_price, f, f.deflation_2022, 100))
        ELSE IF Has(<<"e", "t", "h">>) THEN Plain(f.eth_price * 100)
        ELSE IF Has(<<"r", "d", "s", "l">>) THEN Plain(f.rdsl_price * 100)
        ELSE IF Has(<<"s", "p", "k">>) THEN Plain(f.spk_price * 100)
        ELSE IF Has(<<"l", "n", "g">>) \/ Has(<<"c", "n", "g">>) \/ Has(<<"n", "g", "l">>)
        THEN P(IF Has(<<"l", "n", "g">>) \/ Has(<<"c", "n", "g">>) THEN <<"T", "_", "n", "g">> ELSE <<"I", "_", "p", "r", "o", "p">>,
               "lng/cng/ngl proxy", 89)
        ELSE IF Has(<<"l", "p", "g">>)
        THEN P(lpg_proxy(tech_name, tname_lower), "lpg proxy", 100)
        ELSE IF Has(<<"e", "_", "c", "o", "a", "l">>) THEN P(<<"I", "_", "c", "o", "a", "l">>, "E_coal->I_coal", 100)
        ELSE IF Has(<<"e", "_", "g", "s", "l">>) THEN P(<<"T", "_", "g", "s", "l">>, "E_gsl->T_gsl", 100)
        ELSE IF Has(<<"r", "_", "o", "i", "l">>) THEN P(<<"C", "_", "o", "i", "l">>, "R_oil->C_oil", 100)
        ELSE IF Has(<<"c", "_", "h", "2">>) \/ Has(<<"r", "_", "h", "2">>) THEN P(<<"I", "_", "h", "2">>, "H2->I_h2", 100)
        ELSE IF Has(<<"i", "_", "p", "c", "o", "k", "e">>) \/ Has(<<"i", "_", "c", "o", "k", "e">>)
        THEN P(<<"I", "_", "c", "o", "a", "l">>, "coke->I_coal", 100)
        ELSE IF Has(<<"a", "_", "g", "s", "l">>) THEN P(<<"T", "_", "g", "s", "l">>, "A_gsl->T_gsl", 100)
        ELSE IF Has(<<"a", "_", "n", "g">>) THEN P(<<"I", "_", "n", "g">>, "A_ng->I_ng", 100)
        ELSE IF Has(<<"a", "_", "d", "s", "l">>) THEN P(<<"T", "_", "d", "s", "l">>, "A_dsl->T_dsl", 100)
        ELSE IF Has(<<"a", "_", "p", "r", "o", "p">>) THEN P(<<"T", "_", "p", "r", "o", "p">>, "A_prop->T_prop", 100)
        ELSE IF Has(<<"m", "d", "o">>) THEN P(<<"T", "_", "d", "s", "l">>, "MDO->0.9*T_dsl", 90)
        ELSE P(tech_name, "direct", 100)
---------------------------------------------------------------------------
(* Inputs the calls are made with                                          *)

\* The three lists of a build pass hold at most MaxItems entries together.
MaxItems == 6

SeqsUpTo(S, n) == UNION {[1..m -> S] : m \in 0..n}

Regions == {"CAN", "ON", "AB"}

PeriodValues == {2025, 2030}

\* Technology identifiers: two priced ones and an import (never priced).
Techs == {<<"F", "_", "D", "S", "L">>, <<"F", "_", "L", "P", "G">>, <<"F", "_", "I", "M", "P", "_", "N", "G">>}

CostRow(p, n, v) == [period |-> p, name |-> n, value |-> v]

ProxyPrices(p, off) ==
    << CostRow(p, <<"T", "_", "n", "g">>, 3 + off),    CostRow(p, <<"I", "_", "p", "r", "o", "p">>, 4 + off),
       CostRow(p, <<"R", "_", "p", "r", "o", "p">>, 5 + off),  CostRow(p, <<"T", "_", "p", "r", "o", "p">>, 6 + off),
       CostRow(p, <<"I", "_", "c", "o", "a", "l">>, 7 + off),  CostRow(p, <<"T", "_", "g", "s", "l">>, 8 + off),
       CostRow(p, <<"C", "_", "o", "i", "l">>, 9 + off),   CostRow(p, <<"I", "_", "h", "2">>, 10 + off),
       CostRow(p, <<"I", "_", "n", "g">>, 11 + off),   CostRow(p, <<"T", "_", "d", "s", "l">>, 12 + off) >>

\* Every proxy at both periods; T_dsl occurs twice at 2025.
CostFull ==
    ProxyPrices(2025, 0) \o ProxyPrices(2030, 20) \o <<CostRow(2025, <<"T", "_", "d", "s", "l">>, 99)>>

\* Most (period, name) pairs are missing.
CostSparse ==
    << CostRow(2025, <<"T", "_", "d", "s", "l">>, 12), CostRow(2025, <<"T", "_", "p", "r", "o", "p">>, 6),
       CostRow(2030, <<"R", "_", "p", "r", "o", "p">>, 25) >>

\* A table holding a negative price.
CostNeg == << CostRow(2025, <<"T", "_", "d", "s", "l">>, -12), CostRow(2030, <<"T", "_", "d", "s", "l">>, 32) >>

CostTables == {<<>>, CostFull, CostSparse, CostNeg}

FactorsPos ==
    [mmbtuconvertor |-> 2, currencyadjustment |-> 3, deflation_2022 |-> 5,
     deflation_2025 |-> 7, eth_price |-> 11, rdsl_price |-> 13, spk_price |-> 17]

FactorsNeg == [FactorsPos EXCEPT !.deflation_2025 = -7, !.eth_price = -11]

FactorBundles == {FactorsPos, FactorsNeg}

CfgPos == [b_price |-> 19, u_price |-> 23]

CfgNeg == [b_price |-> -19, u_price |-> 23]

Cfgs == {CfgPos, CfgNeg}

\* Fuel metadata table (fuel_df): Commodity, notes, source.
FuelDf ==
    << [Commodity |-> <<"T", "_", "d", "s", "l">>, notes |-> "diesel", source |-> "ref-1"],
       [Commodity |-> <<"T", "_", "d", "s", "l">>, notes |-> "diesel bis", source |-> "ref-2"],
       [Commodity |-> <<"I", "_", "M", "D", "O">>, notes |-> "marine", source |-> "ref-3"] >>

Out(n) == [output |-> n]

\* A row already in comb_dict['CostVariable'] before the call.
PriorRow ==
    [region |-> "ON", period |-> 2025, tech |-> <<"F", "_", "D", "S", "L">>, vintage |-> 2025,
     value |-> 1, unit |-> "2020 M$/PJ", notes |-> "", source |-> "",
     dq_cred |-> 2, dq_geo |-> 3, dq_str |-> 2, dq_tech |-> 1, dq_time |-> 1,
     data_id |-> "FUELON"]

CombOf(prior) == [CostVariable |-> prior, CostInvest |-> <<"kept">>]

AllIds == ("ON" :> "FUELON") @@ ("AB" :> "FUELAB") @@ ("CAN" :> "FUELCAN")

\* The mapping, region ids, cost table, config, factors and prior table a
\* build pass is called with.
Scenarios ==
    << [mapping |-> (<<"F", "_", "D", "S", "L">> :> Out(<<"T", "_", "d", "s", "l">>)) @@ (<<"F", "_", "L", "P", "G">> :> Out(<<" ", "T", "_", "d", "s", "l", " ">>)),
        dict_id |-> AllIds, cost_df |-> CostFull, cfg |-> CfgPos,
        factors |-> FactorsPos, comb |-> CombOf(<<PriorRow>>)],
       [mapping |-> (<<"F", "_", "D", "S", "L">> :> Out(<<"I", "_", "M", "D", "O">>)) @@ (<<"F", "_", "L", "P", "G">> :> Out(<<"F", "_", "R", "_", "L", "P", "G">>)),
        dict_id |-> ("ON" :> "FUELON") @@ ("AB" :> "FUELAB"),
        cost_df |-> CostSparse, cfg |-> CfgPos,
        factors |-> FactorsPos, comb |-> CombOf(<<>>)],
       [mapping |-> (<<"F", "_", "D", "S", "L">> :> Out(<<"t", "_", "d", "s", "l">>)),
        dict_id |-> AllIds, cost_df |-> CostFull, cfg |-> CfgPos,
        factors |-> FactorsPos, comb |-> CombOf(<<>>)],
       [mapping |-> (<<"F", "_", "D", "S", "L">> :> Out(<<"X", "_", "b", "i", "o", "_", "l", "n", "g">>)) @@ (<<"F", "_", "L", "P", "G">> :> Out(<<"T", "_", "d", "s", "l">>)),
        dict_id |-> ("ON" :> "FUELON"), cost_df |-> CostNeg, cfg |-> CfgNeg,
        factors |-> FactorsNeg, comb |-> CombOf(<<PriorRow>>)] >>

\* Technical names _calc_value is called with directly.
CalcNames ==
    { <<"F", "_", "B", "I", "O">>, <<"w", "o", "o", "d", "_", "l", "n", "g">>, <<"b", "i", "o", "_", "l", "n", "g">>, <<"U", "_", "N", "A", "T">>, <<"u", "_", "e", "n", "r", "_", "e", "t", "h">>, <<"E", "T", "H">>,
      <<"m", "e", "t", "h", "a", "n", "o", "l">>, <<"R", "D", "S", "L", "_", "s", "p", "k">>, <<"T", "_", "S", "P", "K">>, <<"e", "t", "h", "_", "w", "o", "o", "d">>, <<"s", "p", "k", "_", "m", "d", "o">>,
      <<"T", "_", "L", "N", "G">>, <<"T", "_", "C", "N", "G">>, <<"I", "_", "N", "G", "L">>, <<"l", "n", "g", "_", "n", "g", "l">>, <<"N", "G", "L", "_", "l", "p", "g">>, <<"c", "n", "g", "_", "a", "_", "d", "s", "l">>,
      <<"F", "_", "R", "_", "L", "P", "G">>, <<"f", "_", "r", "_", "l", "p", "g">>, <<"F", "_", "r", "_", "L", "p", "g">>, <<"T", "_", "L", "P", "G">>, <<"F", "_", "R", "_", "L", "P", "G", "2">>, <<" ", "F", "_", "R", "_", "L", "P", "G">>,
      <<"l", "p", "g", "_", "e", "_", "c", "o", "a", "l">>, <<"E", "_", "C", "O", "A", "L">>, <<"E", "_", "g", "s", "l">>, <<"e", "_", "c", "o", "a", "l", "_", "e", "_", "g", "s", "l">>, <<"R", "_", "O", "I", "L">>,
      <<"r", "_", "o", "i", "l", "_", "c", "_", "h", "2">>, <<"C", "_", "H", "2">>, <<"R", "_", "h", "2">>, <<"I", "_", "P", "C", "O", "K", "E">>, <<"I", "_", "c", "o", "k", "e">>, <<"i", "_", "c", "o", "k", "e", "_", "a", "_", "g", "s", "l">>,
      <<"A", "_", "G", "S", "L">>, <<"A", "_", "N", "G">>, <<"a", "_", "g", "s", "l", "_", "a", "_", "n", "g">>, <<"A", "_", "D", "S", "L">>, <<"a", "_", "n", "g", "_", "a", "_", "d", "s", "l">>, <<"A", "_", "P", "R", "O", "P">>,
      <<"a", "_", "d", "s", "l", "_", "a", "_", "p", "r", "o", "p">>, <<"I", "_", "M", "D", "O">>, <<"a", "_", "p", "r", "o", "p", "_", "m", "d", "o">>, <<"a", "_", "d", "s", "l", "_", "m", "d", "o">>, <<"T", "_", "d", "s", "l">>,
      <<"t", "_", "d", "s", "l">>, <<"R", "_", "p", "r", "o", "p">>, <<"X">> }

CalcPeriods == {2025, 2030, 2035}

NoRet == [value |-> 0, out |-> <<>>]

InitBuild ==
    /\ province_list \in SeqsUpTo(Regions, MaxItems)
    /\ periods \in SeqsUpTo(PeriodValues, MaxItems - Len(province_list))
    /\ tech_list \in SeqsUpTo(Techs, MaxItems - Len(province_list) - Len(periods))
    /\ \E s \in DOMAIN Scenarios :
          /\ mapping = Scenarios[s].mapping
          /\ dict_id = Scenarios[s].dict_id
          /\ cost_df = Scenarios[s].cost_df
          /\ cfg = Scenarios[s].cfg
          /\ factors = Scenarios[s].factors
          /\ comb_dict = Scenarios[s].comb
    /\ comb0 = comb_dict
    /\ rows = <<>>
    /\ pc = "for_pro"
    /\ pro_i = 0 /\ vint_i = 0 /\ per_i = 0 /\ tech_i = 0
    /\ stdout = <<>>
    /\ tname = <<>> /\ period_val = 0 /\ cpc = "idle" /\ calc_ret = NoRet

InitCalc ==
    /\ tname \in CalcNames
    /\ period_val \in CalcPeriods
    /\ cost_df \in CostTables
    /\ cfg \in Cfgs
    /\ factors \in FactorBundles
    /\ cpc = "call" /\ calc_ret = NoRet
    /\ stdout = <<>>
    /\ province_list = <<>> /\ periods = <<>> /\ tech_list = <<>>
    /\ mapping = <<>> /\ dict_id = <<>>
    /\ comb_dict = CombOf(<<>>) /\ comb0 = comb_dict
    /\ rows = <<>>
    /\ pc = "idle"
    /\ pro_i = 0 /\ vint_i = 0 /\ per_i = 0 /\ tech_i = 0

Init == InitBuild \/ InitCalc

---------------------------------------------------------------------------
(* build_costvariable                                                      *)

\* As is_can, but the placeholder is compared in lower case.
is_can_lower(pro) == pro = "can"

\* `if pro == 'CAN': continue`
is_can(pro) == pro = "CAN"

\* As per_before_vint, but the period of the vintage itself is skipped too.
per_not_after_vint(per, vint) == per <= vint

\* `if per < vint: continue`
per_before_vint(per, vint) == per < vint

\* As excluded, with the marker list lost.
excluded_never(tech) == FALSE

\* `any(x in tech for x in ['F_IMP', 'ELC', 'OTH'])`
excluded(tech) ==
    \E x \in {<<"F", "_", "I", "M", "P">>, <<"E", "L", "C">>, <<"O", "T", "H">>} : Contains(x, tech)

\* As priced, but the price is taken at the vintage.
priced_at_vintage(tech, vint, per) ==
    _calc_value(tech, strip(mapping[tech].output), vint, cost_df, cfg, factors)

\* tech_name = mapping[tech]['output'].strip(); val = _calc_value(...)
priced(tech, vint, per) ==
    _calc_value(tech, strip(mapping[tech].output), per, cost_df, cfg, factors)

\* notes and source of the first fuel_df row whose Commodity is tech_name
fuel_meta(fdf, tech_name) ==
    LET match == SelectSeq(fdf, LAMBDA r : r.Commodity = tech_name)
    IN  IF match # <<>>
        THEN [notes |-> match[1].notes, source |-> match[1].source]
        ELSE [notes |-> "", source |-> ""]

\* The list appended to rows.
new_row(pro, vint, per, tech, val) ==
    LET meta == fuel_meta(FuelDf, strip(mapping[tech].output))
    IN  [region |-> pro, period |-> per, tech |-> tech, vintage |-> vint,
         value |-> val, unit |-> "2020 M$/PJ",
         notes |-> meta.notes, source |-> meta.source,
         dq_cred |-> 2, dq_geo |-> 3, dq_str |-> 2, dq_tech |-> 1, dq_time |-> 1,
         data_id |-> dict_id[pro]]

\* As rows_append, but the row is put in front.
rows_prepend(rs, r) == <<r>> \o rs

\* rows.append(...)
rows_append(rs, r) == Append(rs, r)

\* As concat, but the prior table is dropped.
concat_new_only(old, new) == new

\* pd.concat([comb_dict['CostVariable'], new_df], ignore_index=True)
concat(old, new) == old \o new

loops == <<pro_i, vint_i, per_i, tech_i>>

calc == <<tname, period_val, cpc, calc_ret>>

\* for pro in province_list: a region other than CAN
NextProvince ==
    /\ pc = "for_pro"
    /\ pro_i < Len(province_list)
    /\ ~is_can(province_list[pro_i + 1])
    /\ pro_i' = pro_i + 1
    /\ vint_i' = 0
    /\ pc' = "for_vint"
    /\ UNCHANGED <<inputs, comb_dict, rows, per_i, tech_i, stdout, calc>>

\* for pro in province_list: CAN, continue
SkipCAN ==
    /\ pc = "for_pro"
    /\ pro_i < Len(province_list)
    /\ is_can(province_list[pro_i + 1])
    /\ pro_i' = pro_i + 1
    /\ UNCHANGED <<inputs, comb_dict, rows, pc, vint_i, per_i, tech_i, stdout, calc>>

\* province_list is exhausted
ProvincesDone ==
    /\ pc = "for_pro"
    /\ pro_i = Len(province_list)
    /\ pc' = "concat"
    /\ UNCHANGED <<inputs, comb_dict, rows, loops, stdout, calc>>

\* for vint in periods
NextVintage ==
    /\ pc = "for_vint"
    /\ vint_i < Len(periods)
    /\ vint_i' = vint_i + 1
    /\ per_i' = 0
    /\ pc' = "for_per"
    /\ UNCHANGED <<inputs, comb_dict, rows, pro_i, tech_i, stdout, calc>>

VintagesDone ==
    /\ pc = "for_vint"
    /\ vint_i = Len(periods)
    /\ pc' = "for_pro"
    /\ UNCHANGED <<inputs, comb_dict, rows, loops, stdout, calc>>

\* for per in periods: per >= vint
NextPeriod ==
    /\ pc = "for_per"
    /\ per_i < Len(periods)
    /\ ~per_before_vint(periods[per_i + 1], periods[vint_i])
    /\ per_i' = per_i + 1
    /\ tech_i' = 0
    /\ pc' = "for_tech"
    /\ UNCHANGED <<inputs, comb_dict, rows, pro_i, vint_i, stdout, calc>>

\* for per in periods: per < vint, continue
SkipPeriod ==
    /\ pc = "for_per"
    /\ per_i < Len(periods)
    /\ per_before_vint(periods[per_i + 1], periods[vint_i])
    /\ per_i' = per_i + 1
    /\ UNCHANGED <<inputs, comb_dict, rows, pc, pro_i, vint_i, tech_i, stdout, calc>>

PeriodsDone ==
    /\ pc = "for_per"
    /\ per_i = Len(periods)
    /\ pc' = "for_vint"
    /\ UNCHANGED <<inputs, comb_dict, rows, loops, stdout, calc>>

\* for tech in tech_list: an excluded technology, continue
SkipTech ==
    /\ pc = "for_tech"
    /\ tech_i < Len(tech_list)
    /\ excluded(tech_list[tech_i + 1])
    /\ tech_i' = tech_i + 1
    /\ UNCHANGED <<inputs, comb_dict, rows, pc, pro_i, vint_i, per_i, stdout, calc>>

\* mapping[tech] raises KeyError
MappingKeyError ==
    /\ pc = "for_tech"
    /\ tech_i < Len(tech_list)
    /\ ~excluded(tech_list[tech_i + 1])
    /\ tech_list[tech_i + 1] \notin DOMAIN mapping
    /\ tech_i' = tech_i + 1
    /\ pc' = "raised"
    /\ UNCHANGED <<inputs, comb_dict, rows, pro_i, vint_i, per_i, stdout, calc>>

\* the price is computed, then dict_id[pro] raises KeyError
DictIdKeyError ==
    /\ pc = "for_tech"
    /\ tech_i < Len(tech_list)
    /\ ~excluded(tech_list[tech_i + 1])
    /\ tech_list[tech_i + 1] \in DOMAIN mapping
    /\ province_list[pro_i] \notin DOMAIN dict_id
    /\ LET val == priced(tech_list[tech_i + 1], periods[vint_i], periods[per_i])
       IN  stdout' = stdout \o val.out
    /\ tech_i' = tech_i + 1
    /\ pc' = "raised"
    /\ UNCHANGED <<inputs, comb_dict, rows, pro_i, vint_i, per_i, calc>>

\* the loop body: one row is appended to rows
AppendRow ==
    /\ pc = "for_tech"
    /\ tech_i < Len(tech_list)
    /\ ~excluded(tech_list[tech_i + 1])
    /\ tech_list[tech_i + 1] \in DOMAIN mapping
    /\ province_list[pro_i] \in DOMAIN dict_id
    /\ LET tech == tech_list[tech_i + 1]
           val  == priced(tech, periods[vint_i], periods[per_i])
       IN  /\ stdout' = stdout \o val.out
           /\ rows' = rows_append(rows,
                         new_row(province_list[pro_i], periods[vint_i],
                                 periods[per_i], tech, val.value))
    /\ tech_i' = tech_i + 1
    /\ UNCHANGED <<inputs, comb_dict, pc, pro_i, vint_i, per_i, calc>>

TechsDone ==
    /\ pc = "for_tech"
    /\ tech_i = Len(tech_list)
    /\ pc' = "for_per"
    /\ UNCHANGED <<inputs, comb_dict, rows, loops, stdout, calc>>

\* if rows: the new rows are concatenated to CostVariable; return comb_dict
ConcatRows ==
    /\ pc = "concat"
    /\ rows # <<>>
    /\ comb_dict' = [comb_dict EXCEPT !.CostVariable = concat(@, rows)]
    /\ pc' = "returned"
    /\ UNCHANGED <<inputs, rows, loops, stdout, calc>>

\* rows is empty: return comb_dict
ReturnNoRows ==
    /\ pc = "concat"
    /\ rows = <<>>
    /\ pc' = "returned"
    /\ UNCHANGED <<inputs, comb_dict, rows, loops, stdout, calc>>

\* a direct call of _calc_value
CalcValue ==
    /\ cpc = "call"
    /\ calc_ret' = _calc_value(<<>>, tname, period_val, cost_df, cfg, factors)
    /\ stdout' = stdout \o calc_ret'.out
    /\ cpc' = "returned"
    /\ UNCHANGED <<inputs, comb_dict, rows, pc, loops, tname, period_val>>

Next ==
    \/ NextProvince \/ SkipCAN \/ ProvincesDone
    \/ NextVintage \/ VintagesDone
    \/ NextPeriod \/ SkipPeriod \/ PeriodsDone
    \/ SkipTech \/ MappingKeyError \/ DictIdKeyError \/ AppendRow \/ TechsDone
    \/ ConcatRows \/ ReturnNoRows
    \/ CalcValue

Spec == Init /\ [][Next]_vars

---------------------------------------------------------------------------
(* What the properties are stated with                                     *)

\* The rows the pass appended to CostVariable.
NewRows ==
    SubSeq(comb_dict.CostVariable, Len(comb0.CostVariable) + 1,
           Len(comb_dict.CostVariable))

HasMarker(tech) ==
    Contains(<<"F", "_", "I", "M", "P">>, tech) \/ Contains(<<"E", "L", "C">>, tech) \/ Contains(<<"O", "T", "H">>, tech)

\* Positions (region, vintage, period, technology) in the three lists that
\* are to be priced.
ValidIdx ==
    {q \in (1..Len(province_list)) \X (1..Len(periods)) \X (1..Len(periods))
              \X (1..Len(tech_list)) :
        /\ province_list[q[1]] # "CAN"
        /\ periods[q[3]] >= periods[q[2]]
        /\ ~HasMarker(tech_list[q[4]])}

\* The key (region, period, technology, vintage) at a position, and of a row.
KeyAt(q) == <<province_list[q[1]], periods[q[3]], tech_list[q[4]], periods[q[2]]>>

KeyOf(r) == <<r.region, r.period, r.tech, r.vintage>>

LexLeq(a, b) ==
    \/ a = b
    \/ \E i \in 1..4 : a[i] < b[i] /\ \A j \in 1..(i - 1) : a[j] = b[j]

\* The place of position q in the enumeration order.
Rank(q) == Cardinality({y \in ValidIdx : LexLeq(y, q)})

NoDup(s) == \A a, b \in DOMAIN s : s[a] = s[b] => a = b

RowsWithKey(k) == {n \in DOMAIN NewRows : KeyOf(NewRows[n]) = k}

\* The rules of the cascade, in the order of the specification (1 to 17);
\* rule 18 is the default.
RuleTokens ==
    << {<<"b", "i", "o">>, <<"w", "o", "o", "d">>}, {<<"u", "_", "n", "a", "t">>, <<"u", "_", "e", "n", "r">>}, {<<"e", "t", "h">>}, {<<"r", "d", "s", "l">>}, {<<"s", "p", "k">>},
       {<<"l", "n", "g">>, <<"c", "n", "g">>, <<"n", "g", "l">>}, {<<"l", "p", "g">>}, {<<"e", "_", "c", "o", "a", "l">>}, {<<"e", "_", "g", "s", "l">>}, {<<"r", "_", "o", "i", "l">>},
       {<<"c", "_", "h", "2">>, <<"r", "_", "h", "2">>}, {<<"i", "_", "p", "c", "o", "k", "e">>, <<"i", "_", "c", "o", "k", "e">>}, {<<"a", "_", "g", "s", "l">>}, {<<"a", "_", "n", "g">>},
       {<<"a", "_", "d", "s", "l">>}, {<<"a", "_", "p", "r", "o", "p">>}, {<<"m", "d", "o">>} >>

RuleMatches(r, name) == \E tok \in RuleTokens[r] : Contains(tok, lower(name))

MatchingRules(name) ==
    LET ln == lower(name)
    IN  {r \in DOMAIN RuleTokens : \E tok \in RuleTokens[r] : Contains(tok, ln)}

FirstRule(name) ==
    LET ms == MatchingRules(name)
    IN  IF ms = {} THEN 18 ELSE CHOOSE r \in ms : \A s \in ms : r <= s

\* The name rule r looks up in the raw cost table (rules 6 to 18).
RuleLookup(r, name) ==
    CASE r = 6  -> IF Contains(<<"l", "n", "g">>, lower(name)) \/ Contains(<<"c", "n", "g">>, lower(name))
                   THEN <<"T", "_", "n", "g">> ELSE <<"I", "_", "p", "r", "o", "p">>
      [] r = 7  -> IF lower(name) = <<"f", "_", "r", "_", "l", "p", "g">> THEN <<"R", "_", "p", "r", "o", "p">> ELSE <<"T", "_", "p", "r", "o", "p">>
      [] r = 8  -> <<"I", "_", "c", "o", "a", "l">>
      [] r = 9  -> <<"T", "_", "g", "s", "l">>
      [] r = 10 -> <<"C", "_", "o", "i", "l">>
      [] r = 11 -> <<"I", "_", "h", "2">>
      [] r = 12 -> <<"I", "_", "c", "o", "a", "l">>
      [] r = 13 -> <<"T", "_", "g", "s", "l">>
      [] r = 14 -> <<"I", "_", "n", "g">>
      [] r = 15 -> <<"T", "_", "d", "s", "l">>
      [] r = 16 -> <<"T", "_", "p", "r", "o", "p">>
      [] r = 17 -> <<"T", "_", "d", "s", "l">>
      [] OTHER  -> name

\* The extra multiplier of rule r, in hundredths.
RuleMult(r) == CASE r = 6 -> 89 [] r = 17 -> 90 [] OTHER -> 100

Hits(pv, name) == {n \in DOMAIN cost_df : cost_df[n].period = pv /\ cost_df[n].name = name}

Miss(pv, name) == Hits(pv, name) = {}

RawPrice(pv, name) ==
    IF Miss(pv, name) THEN 0
    ELSE cost_df[CHOOSE n \in Hits(pv, name) : \A m \in Hits(pv, name) : n <= m].value

Scaled(base, defl, mult) ==
    base * factors.mmbtuconvertor * factors.currencyadjustment * defl * mult

\* The price the specification's rule r gives name at period pv.
RulePrice(r, name, pv) ==
    CASE r = 1 -> Scaled(cfg.b_price, factors.deflation_2022, 100)
      [] r = 2 -> Scaled(cfg.u_price, factors.deflation_2022, 100)
      [] r = 3 -> factors.eth_price * 100
      [] r = 4 -> factors.rdsl_price * 100
      [] r = 5 -> factors.spk_price * 100
      [] OTHER -> Scaled(RawPrice(pv, RuleLookup(r, name)),
                         factors.deflation_2025, RuleMult(r))

\* The technical name of a technology of the catalog.
NameOf(tech) == strip(mapping[tech].output)

NonNegInputs ==
    /\ \A n \in DOMAIN cost_df : cost_df[n].value >= 0
    /\ cfg.b_price >= 0 /\ cfg.u_price >= 0
    /\ factors.mmbtuconvertor >= 0 /\ factors.currencyadjustment >= 0
    /\ factors.deflation_2022 >= 0 /\ factors.deflation_2025 >= 0
    /\ factors.eth_price >= 0 /\ factors.rdsl_price >= 0
    /\ factors.spk_price >= 0

\* Some position the enumeration reaches needs a mapping entry or a region
\* identifier that is absent.
ViolationReached ==
    \E q \in ValidIdx :
        \/ tech_list[q[4]] \notin DOMAIN mapping
        \/ province_list[q[1]] \notin DOMAIN dict_id

AllDistinct == NoDup(province_list) /\ NoDup(periods) /\ NoDup(tech_list)

OneRowPerKey ==
    /\ \A q \in ValidIdx : Cardinality(RowsWithKey(KeyAt(q))) = 1
    /\ \A a, b \in DOMAIN NewRows : KeyOf(NewRows[a]) = KeyOf(NewRows[b]) => a = b

---------------------------------------------------------------------------
(* Properties                                                              *)

\* C1 (as stated): after build_costvariable returns, the appended rows hold
\* exactly one row for every (region, vintage, period, technology) with the
\* region not CAN, period >= vintage and the technology not excluded, and
\* no key occurs twice among them.
C1_OneRowPerCombination == pc = "returned" => OneRowPerKey

\* C1 (amended): the same, for a region list, a period list and a technology
\* catalog that each hold no entry twice.
C1_OneRowPerCombinationDistinct ==
    (pc = "returned" /\ AllDistinct) => OneRowPerKey

C1_Witness ==
    /\ pc = "returned" /\ AllDistinct
    /\ Len(NewRows) >= 3
    /\ \E n \in DOMAIN province_list : province_list[n] = "CAN"
    /\ \E n \in DOMAIN tech_list : HasMarker(tech_list[n])
    /\ Len(periods) = 2

\* C2: no appended row has period < vintage, region CAN, or a technology
\* whose identifier contains F_IMP, ELC or OTH.
C2_NoExcludedRows ==
    pc = "returned" =>
        \A n \in DOMAIN NewRows :
            /\ NewRows[n].period >= NewRows[n].vintage
            /\ NewRows[n].region # "CAN"
            /\ ~HasMarker(NewRows[n].tech)

C2_Witness ==
    /\ pc = "returned" /\ NewRows # <<>>
    /\ \E n \in DOMAIN province_list : province_list[n] = "CAN"
    /\ \E n \in DOMAIN tech_list : HasMarker(tech_list[n])
    /\ \E a, b \in DOMAIN periods : periods[a] < periods[b]

\* C3: _calc_value returns what the lowest-numbered matching rule of the
\* specification computes (rule 18, the direct lookup of the name itself,
\* when no token matches); rules 1 to 5 look nothing up.
C3_FirstMatchWins ==
    cpc = "returned" =>
        /\ calc_ret.value = RulePrice(FirstRule(tname), tname, period_val)
        /\ FirstRule(tname) <= 5 => calc_ret.out = <<>>
        /\ (FirstRule(tname) = 18 /\ Miss(period_val, tname)) =>
               (Len(calc_ret.out) = 1 /\ calc_ret.out[1].name = tname)

C3_Witness ==
    /\ cpc = "returned"
    /\ tname = <<"b", "i", "o", "_", "l", "n", "g">>
    /\ Cardinality(MatchingRules(tname)) = 2
    /\ cost_df = CostFull /\ period_val = 2025
    /\ calc_ret.value = 19 * 2 * 3 * 5 * 100
    /\ calc_ret.value # RulePrice(6, tname, period_val)

\* C4: a lookup that finds no (period, name) row yields 0: the resolver
\* returns 0, the build pass emits the row with value 0, aborts for no
\* other reason than a missing mapping entry or region identifier, and
\* emits a row for every combination.
C4_MissingLookupIsZero ==
    /\ cpc = "returned" =>
          LET r == FirstRule(tname)
          IN  (r >= 6 /\ Miss(period_val, RuleLookup(r, tname)))
                => calc_ret.value = 0
    /\ pc = "returned" =>
          /\ \A n \in DOMAIN NewRows :
                LET nm == NameOf(NewRows[n].tech)
                    r  == FirstRule(nm)
                IN  (r >= 6 /\ Miss(NewRows[n].period, RuleLookup(r, nm)))
                      => NewRows[n].value = 0
          /\ Len(NewRows) = Cardinality(ValidIdx)
    /\ pc = "raised" =>
          \/ tech_list[tech_i] \notin DOMAIN mapping
          \/ province_list[pro_i] \notin DOMAIN dict_id

C4_Witness ==
    /\ pc = "returned"
    /\ \E n \in DOMAIN NewRows :
          /\ n < Len(NewRows)
          /\ Miss(NewRows[n].period,
                  RuleLookup(FirstRule(NameOf(NewRows[n].tech)),
                             NameOf(NewRows[n].tech)))
          /\ NewRows[n].value = 0
          /\ NewRows[n + 1].value # 0

\* C5 (as stated): build_costvariable does not return when a technology of
\* the catalog is absent from the mapping or a region of the region list is
\* absent from the region-to-identifier map.
C5_AbortsOnAnyAbsentEntry ==
    pc = "returned" =>
        /\ \A n \in DOMAIN tech_list : tech_list[n] \in DOMAIN mapping
        /\ \A n \in DOMAIN province_list : province_list[n] \in DOMAIN dict_id

\* C5 (amended): build_costvariable aborts, leaving the collection as it
\* was, exactly when a combination it prices (region not CAN, period >=
\* vintage, technology not excluded) has its technology absent from the
\* mapping or its region absent from the region-to-identifier map; it never
\* returns in that case.
C5_AbortsOnReachedAbsentEntry ==
    /\ pc = "returned" => ~ViolationReached
    /\ pc = "raised" => (ViolationReached /\ comb_dict = comb0)

C5_Witness ==
    /\ pc = "raised"
    /\ province_list[pro_i] \notin DOMAIN dict_id
    /\ tech_list[tech_i] \in DOMAIN mapping
    /\ rows # <<>>

\* C6: the collection is as it was before the call in every state before
\* the return and after an abort; on return the prior rows of CostVariable
\* are an unchanged prefix, followed by the rows of the pass, and every
\* other member is unchanged.
C6_SingleAppend ==
    /\ pc # "returned" => comb_dict = comb0
    /\ pc = "returned" =>
          /\ DOMAIN comb_dict = DOMAIN comb0
          /\ comb_dict.CostInvest = comb0.CostInvest
          /\ Len(comb_dict.CostVariable) = Len(comb0.CostVariable) + Len(rows)
          /\ SubSeq(comb_dict.CostVariable, 1, Len(comb0.CostVariable))
                = comb0.CostVariable
          /\ NewRows = rows

C6_Witness ==
    /\ pc = "returned"
    /\ comb0.CostVariable # <<>>
    /\ Len(rows) >= 2
    /\ comb_dict # comb0

\* C7: the appended rows are in enumeration order: by position of the
\* region in the region list, then of the vintage in the period list, then
\* of the period in the period list, then of the technology in the catalog.
C7_EnumerationOrder ==
    pc = "returned" =>
        /\ Len(NewRows) = Cardinality(ValidIdx)
        /\ \A q \in ValidIdx : KeyOf(NewRows[Rank(q)]) = KeyAt(q)

C7_Witness ==
    /\ pc = "returned"
    /\ \E a, b \in DOMAIN NewRows :
          /\ NewRows[a].region # NewRows[b].region
    /\ \E a, b \in DOMAIN NewRows :
          /\ NewRows[a].vintage # NewRows[b].vintage
    /\ \E a, b \in DOMAIN NewRows :
          /\ NewRows[a].tech # NewRows[b].tech
    /\ Len(NewRows) >= 12

\* C8: with every numeric input non-negative, the value _calc_value returns
\* and the value of every appended row are non-negative, and a failed
\* lookup gives exactly 0.
C8_NonNegative ==
    NonNegInputs =>
        /\ cpc = "returned" =>
              /\ calc_ret.value >= 0
              /\ calc_ret.out # <<>> => calc_ret.value = 0
        /\ pc = "returned" => \A n \in DOMAIN NewRows : NewRows[n].value >= 0

C8_Witness ==
    /\ NonNegInputs
    /\ pc = "returned"
    /\ \E n \in DOMAIN NewRows : NewRows[n].value > 0
    /\ \E n \in DOMAIN NewRows : NewRows[n].value = 0

\* C9: a name that reaches the LPG rule is priced from R_prop exactly when
\* its lower-cased whole name is f_r_lpg, else from T_prop, through the
\* BTU, currency and 2025-deflator chain with no extra multiplier.
C9_LpgProxy ==
    (/\ cpc = "returned"
     /\ Contains(<<"l", "p", "g">>, lower(tname))
     /\ \A r \in 1..6 : ~RuleMatches(r, tname))
    => LET proxy == IF lower(tname) = <<"f", "_", "r", "_", "l", "p", "g">> THEN <<"R", "_", "p", "r", "o", "p">> ELSE <<"T", "_", "p", "r", "o", "p">>
       IN  /\ calc_ret.value
                = RawPrice(period_val, proxy) * factors.mmbtuconvertor
                    * factors.currencyadjustment * factors.deflation_2025 * 100
           /\ Miss(period_val, proxy) =>
                 (Len(calc_ret.out) = 1 /\ calc_ret.out[1].name = proxy)
           /\ ~Miss(period_val, proxy) => calc_ret.out = <<>>

C9_Witness ==
    /\ cpc = "returned"
    /\ tname = <<"F", "_", "R", "_", "L", "P", "G">>
    /\ cost_df = CostFull /\ period_val = 2030 /\ factors = FactorsPos
    /\ calc_ret.value = 25 * 2 * 3 * 7 * 100

\* C10: two appended rows with the same period whose technologies have the
\* same technical name (in particular, the same technology) have the same
\* value, whatever their region and vintage.
C10_ValueByNameAndPeriod ==
    pc = "returned" =>
        \A a, b \in DOMAIN NewRows :
            (/\ NewRows[a].period = NewRows[b].period
             /\ NameOf(NewRows[a].tech) = NameOf(NewRows[b].tech))
            => NewRows[a].value = NewRows[b].value

C10_Witness ==
    /\ pc = "returned"
    /\ \E a, b \in DOMAIN NewRows :
          /\ NewRows[a].period = NewRows[b].period
          /\ NewRows[a].tech # NewRows[b].tech
          /\ NameOf(NewRows[a].tech) = NameOf(NewRows[b].tech)
          /\ NewRows[a].region # NewRows[b].region
          /\ NewRows[a].vintage # NewRows[b].vintage
          /\ NewRows[a].value = NewRows[b].value
          /\ NewRows[a].value # 0
    /\ \E a, b \in DOMAIN NewRows :
          /\ NewRows[a].tech = NewRows[b].tech
          /\ NewRows[a].period # NewRows[b].period
          /\ NewRows[a].value # NewRows[b].value

=============================================================================
